---- MODULE Spec2Model ----
(***************************************************************************)
(* Change tracking of akhilman/ecstasy (src/query): the registry Changes   *)
(* (a BTreeMap from ElementTypeId to AtomicBool), the Trackable shapes     *)
(* (&T, &mut T, Option, tuples, hecs::Or) and the projections TrackedRef   *)
(* and TrackedMut that mark the registry on mutable access.                *)
(***************************************************************************)
EXTENDS Integers, Sequences, FiniteSets, TLC

VARIABLES
    typeId,    \* core::any::TypeId of every leaf type, fixed by the build
    changes,   \* Changes.changes : ElementTypeId -> flag
    pc,        \* "new" (no registry yet), "built", "panicked"
    tracked,   \* the live tracked projection, or NoProj
    mutref,    \* the &mut T handed out by deref_mut and not yet released
    world,     \* the (u32, i32) components of the spawned records
    query,     \* the TrackedQueryBorrow / TrackedQueryIter over world
    op,        \* the last call and what it returned
    before,    \* Changes.changes as it was when the last call began
    marked,    \* identities for which a mark has returned normally
    seen,      \* the last for_each_changed result, valid until the next mark
    threads    \* the threads that share &Changes: position, iteration, view

vars == <<typeId, changes, pc, tracked, mutref, world, query, op, before,
          marked, seen, threads>>

----------------------------------------------------------------------------
(* Bounds *)

\* leaf values are 0..MaxValue
MaxValue == 1

\* at most MaxRecords records are spawned
MaxRecords == 2

Values == 0..MaxValue

\* the threads that share one registry
MaxThreads == 2

\* the calls the threads make on the registry, all threads together
MaxCalls == 3

----------------------------------------------------------------------------
(* Type identity: src/query/type_id.rs *)

LeafTypes == {"u32", "i32", "f32"}

\* TypeId values are chosen by the compiler; only their relative order matters.
TypeIdAssignments ==
    {f \in [LeafTypes -> 1..Cardinality(LeafTypes)] :
        \A a, b \in LeafTypes : a # b => f[a] # f[b]}

\* any::type_name::<T>()
type_name(T) == T

\* byte-wise order of the names of LeafTypes
StrLess(a, b) ==
    LET rank == [n \in LeafTypes |->
                    CASE n = "f32" -> 1 [] n = "i32" -> 2 [] n = "u32" -> 3]
    IN rank[a] < rank[b]

\* variant of ElementTypeId::of: the TypeId of u32 for every T
ElementTypeId_of_u32(T) == [id |-> typeId["u32"], name |-> type_name(T)]

\* ElementTypeId::of::<T>()
ElementTypeId_of(T) == [id |-> typeId[T], name |-> type_name(T)]

\* #[derive(PartialOrd, Ord)] on ElementTypeId { id, name }: lexicographic
ElementTypeId_lt(a, b) ==
    \/ a.id < b.id
    \/ a.id = b.id /\ StrLess(a.name, b.name)

\* #[derive(PartialEq, Eq)] on ElementTypeId { id, name }: field by field
ElementTypeId_eq(a, b) == a.id = b.id /\ a.name = b.name

\* impl Hash for ElementTypeId: what hash feeds the hasher, the id alone
ElementTypeId_hash(a) == <<a.id>>

----------------------------------------------------------------------------
(* Shapes: the types that implement Trackable *)

Ref(T) == [kind |-> "Ref", ty |-> T]
Mut(T) == [kind |-> "Mut", ty |-> T]
Opt(s) == [kind |-> "Option", inner |-> s]
Tuple(es) == [kind |-> "Tuple", elems |-> es]
Or(l, r) == [kind |-> "Or", left |-> l, right |-> r]

Shapes ==
    { Ref("u32"),
      Mut("u32"),
      Opt(Mut("u32")),
      Tuple(<<>>),
      Tuple(<<Mut("u32"), Ref("i32")>>),
      Tuple(<<Opt(Mut("f32")), Mut("u32")>>),
      Tuple(<<Mut("u32"), Mut("u32")>>),
      Tuple(<<Opt(Ref("i32")), Tuple(<<Mut("f32")>>)>>),
      Or(Mut("u32"), Mut("f32")),
      Or(Mut("u32"), Ref("u32")) }

ReadOnly == "ReadOnly"
ReadWrite == "ReadWrite"

RECURSIVE count_types(_)
RECURSIVE count_types_tuple(_)
count_types(s) ==
    CASE s.kind = "Ref" -> 1
      [] s.kind = "Mut" -> 1
      [] s.kind = "Option" -> count_types(s.inner)
      [] s.kind = "Tuple" -> count_types_tuple(s.elems)
      [] s.kind = "Or" -> count_types(s.left) + count_types(s.right)

count_types_tuple(es) ==
    IF es = <<>> THEN 0
    ELSE count_types(Head(es)) + count_types_tuple(Tail(es))

\* the calls f(t, m) made by for_each_type, in order
RECURSIVE for_each_type(_)
RECURSIVE for_each_type_tuple(_)
for_each_type(s) ==
    CASE s.kind = "Ref" -> << <<ElementTypeId_of(s.ty), ReadOnly>> >>
      [] s.kind = "Mut" -> << <<ElementTypeId_of(s.ty), ReadWrite>> >>
      [] s.kind = "Option" -> for_each_type(s.inner)
      [] s.kind = "Tuple" -> for_each_type_tuple(s.elems)
      [] s.kind = "Or" -> for_each_type(s.left) \o for_each_type(s.right)

for_each_type_tuple(es) ==
    IF es = <<>> THEN <<>>
    ELSE for_each_type(Head(es)) \o for_each_type_tuple(Tail(es))

----------------------------------------------------------------------------
(* Values of a shape, before conversion *)

None == [kind |-> "None"]
Some(x) == [kind |-> "Some", inner |-> x]

RECURSIVE ValuesOf(_)
RECURSIVE TupleValuesOf(_)
ValuesOf(s) ==
    CASE s.kind = "Ref" ->
            {[kind |-> "Ref", ty |-> s.ty, value |-> v] : v \in Values}
      [] s.kind = "Mut" ->
            {[kind |-> "Mut", ty |-> s.ty, value |-> v] : v \in Values}
      [] s.kind = "Option" ->
            {None} \cup {Some(x) : x \in ValuesOf(s.inner)}
      [] s.kind = "Tuple" ->
            {[kind |-> "Tuple", elems |-> es] : es \in TupleValuesOf(s.elems)}
      [] s.kind = "Or" ->
            {[kind |-> "Left", left |-> l] : l \in ValuesOf(s.left)}
            \cup {[kind |-> "Right", right |-> r] : r \in ValuesOf(s.right)}
            \cup {[kind |-> "Both", left |-> l, right |-> r] :
                    l \in ValuesOf(s.left), r \in ValuesOf(s.right)}

TupleValuesOf(es) ==
    IF es = <<>> THEN {<<>>}
    ELSE {<<h>> \o t : h \in ValuesOf(Head(es)), t \in TupleValuesOf(Tail(es))}

AllValues == UNION {ValuesOf(s) : s \in Shapes}

----------------------------------------------------------------------------
(* Changes: src/query/tracked.rs.  An operation on &Changes returns, with   *)
(* its result, the map it leaves behind: the cells are AtomicBool, so a     *)
(* shared reference is enough to store into them.                           *)

\* Changes::new
Changes_new == [t \in {} |-> FALSE]

\* variant of reserve: the cell is created already set
reserve_set(m, type_id) ==
    IF type_id \in DOMAIN m
    THEN m
    ELSE [t \in DOMAIN m \cup {type_id} |-> IF t = type_id THEN TRUE ELSE m[t]]

\* variant of reserve: BTreeMap::insert, which replaces an occupied entry
reserve_insert(m, type_id) ==
    [t \in DOMAIN m \cup {type_id} |-> IF t = type_id THEN FALSE ELSE m[t]]

\* Changes::reserve
reserve(m, type_id) ==
    IF type_id \in DOMAIN m
    THEN m
    ELSE [t \in DOMAIN m \cup {type_id} |-> IF t = type_id THEN FALSE ELSE m[t]]

\* T::for_each_type(|t, _| changes.reserve(t))
RECURSIVE reserve_each(_, _)
reserve_each(m, calls) ==
    IF calls = <<>> THEN m
    ELSE reserve_each(reserve(m, Head(calls)[1]), Tail(calls))

\* Changes::new_for
new_for(s) == reserve_each(Changes_new, for_each_type(s))

\* variant of btree_iter: the keys in descending order
RECURSIVE btree_iter_rev(_)
btree_iter_rev(keys) ==
    IF keys = {} THEN <<>>
    ELSE LET k == CHOOSE k \in keys :
                    \A o \in keys \ {k} : ElementTypeId_lt(o, k)
         IN <<k>> \o btree_iter_rev(keys \ {k})

\* BTreeMap::iter: the keys in ascending order
RECURSIVE btree_iter(_)
btree_iter(keys) ==
    IF keys = {} THEN <<>>
    ELSE LET k == CHOOSE k \in keys :
                    \A o \in keys \ {k} : ElementTypeId_lt(k, o)
         IN <<k>> \o btree_iter(keys \ {k})

\* variant of for_each_changed: changes.iter().rev()
for_each_changed_rev(m) ==
    LET load(t) == m[t]
    IN [changes |-> m, visited |-> SelectSeq(btree_iter_rev(DOMAIN m), load)]

\* variant of for_each_changed: the flags visited are taken, left false
for_each_changed_take(m) ==
    LET load(t) == m[t]
    IN [changes |-> [t \in DOMAIN m |-> FALSE],
        visited |-> SelectSeq(btree_iter(DOMAIN m), load)]

\* Changes::for_each_changed: visited is the calls f(t) it makes, in order
for_each_changed(m) ==
    LET load(t) == m[t]
    IN [changes |-> m, visited |-> SelectSeq(btree_iter(DOMAIN m), load)]

\* variant of get_atomic: a missing cell is answered with a cell that is false
get_atomic_default(m, type_id) ==
    IF type_id \in DOMAIN m
    THEN [changes |-> m, some |-> TRUE, cell |-> m[type_id]]
    ELSE [changes |-> m, some |-> TRUE, cell |-> FALSE]

\* Changes::get_atomic: Some(&cell) or None
get_atomic(m, type_id) ==
    IF type_id \in DOMAIN m
    THEN [changes |-> m, some |-> TRUE, cell |-> m[type_id]]
    ELSE [changes |-> m, some |-> FALSE, cell |-> FALSE]

\* variant of set_changed: every cell is stored to
set_changed_all(m, type_id) ==
    IF type_id \in DOMAIN m
    THEN [panic |-> FALSE, changes |-> [t \in DOMAIN m |-> TRUE]]
    ELSE [panic |-> TRUE, changes |-> m]

\* variant of set_changed: a missing cell is created, as entry().or_insert()
set_changed_insert(m, type_id) ==
    [panic |-> FALSE,
     changes |-> [t \in DOMAIN m \cup {type_id} |->
                    IF t = type_id THEN TRUE ELSE m[t]]]

\* variant of set_changed: a missing cell is ignored
set_changed_ignore(m, type_id) ==
    IF type_id \in DOMAIN m
    THEN [panic |-> FALSE, changes |-> [m EXCEPT ![type_id] = TRUE]]
    ELSE [panic |-> FALSE, changes |-> m]

\* Changes::set_changed
set_changed(m, type_id) ==
    IF type_id \in DOMAIN m
    THEN [panic |-> FALSE, changes |-> [m EXCEPT ![type_id] = TRUE]]
    ELSE [panic |-> TRUE, changes |-> m]

\* variant of is_changed: a missing cell is fatal, as it is in set_changed
is_changed_strict(m, type_id) ==
    IF type_id \in DOMAIN m
    THEN [panic |-> FALSE, changes |-> m, ret |-> m[type_id]]
    ELSE [panic |-> TRUE, changes |-> m, ret |-> FALSE]

\* Changes::is_changed
is_changed(m, type_id) ==
    IF type_id \in DOMAIN m
    THEN [panic |-> FALSE, changes |-> m, ret |-> m[type_id]]
    ELSE [panic |-> FALSE, changes |-> m, ret |-> FALSE]

----------------------------------------------------------------------------
(* Projections: src/query/tracked.rs, tuples.rs, hecs.rs.  A reference is   *)
(* modelled by the value it points to: while the projection lives, the      *)
(* borrow lets nothing else change that value.                              *)

NoProj == [kind |-> "NoProj"]
NoRef == [live |-> FALSE, path |-> <<>>]

\* TrackedRef::new
TrackedRef_new(value, ty) == [kind |-> "TrackedRef", ty |-> ty, value |-> value]

\* TrackedMut::new
TrackedMut_new(value, ty) == [kind |-> "TrackedMut", ty |-> ty, value |-> value]

\* variant of the conversion: the elements of a tuple come out in reverse
RECURSIVE tracked_of_reversed(_)
tracked_of_reversed(v) ==
    CASE v.kind = "Ref" -> TrackedRef_new(v.value, v.ty)
      [] v.kind = "Mut" -> TrackedMut_new(v.value, v.ty)
      [] v.kind = "None" -> None
      [] v.kind = "Some" -> Some(tracked_of_reversed(v.inner))
      [] v.kind = "Tuple" ->
            [kind |-> "Tuple",
             elems |-> [i \in DOMAIN v.elems |->
                tracked_of_reversed(v.elems[Len(v.elems) + 1 - i])]]
      [] v.kind = "Left" ->
            [kind |-> "Left", left |-> tracked_of_reversed(v.left)]
      [] v.kind = "Right" ->
            [kind |-> "Right", right |-> tracked_of_reversed(v.right)]
      [] v.kind = "Both" ->
            [kind |-> "Both", left |-> tracked_of_reversed(v.left),
                              right |-> tracked_of_reversed(v.right)]

\* variant of the conversion: Or::Both converts its left branch only
RECURSIVE tracked_of_both_as_left(_)
tracked_of_both_as_left(v) ==
    CASE v.kind = "Ref" -> TrackedRef_new(v.value, v.ty)
      [] v.kind = "Mut" -> TrackedMut_new(v.value, v.ty)
      [] v.kind = "None" -> None
      [] v.kind = "Some" -> Some(tracked_of_both_as_left(v.inner))
      [] v.kind = "Tuple" ->
            [kind |-> "Tuple",
             elems |-> [i \in DOMAIN v.elems |->
                            tracked_of_both_as_left(v.elems[i])]]
      [] v.kind = "Left" ->
            [kind |-> "Left", left |-> tracked_of_both_as_left(v.left)]
      [] v.kind = "Right" ->
            [kind |-> "Right", right |-> tracked_of_both_as_left(v.right)]
      [] v.kind = "Both" ->
            [kind |-> "Left", left |-> tracked_of_both_as_left(v.left)]

\* the Self::Tracked built by into_tracked / to_tracked, by shape
RECURSIVE tracked_of(_)
tracked_of(v) ==
    CASE v.kind = "Ref" -> TrackedRef_new(v.value, v.ty)
      [] v.kind = "Mut" -> TrackedMut_new(v.value, v.ty)
      [] v.kind = "None" -> None
      [] v.kind = "Some" -> Some(tracked_of(v.inner))
      [] v.kind = "Tuple" ->
            [kind |-> "Tuple",
             elems |-> [i \in DOMAIN v.elems |-> tracked_of(v.elems[i])]]
      [] v.kind = "Left" -> [kind |-> "Left", left |-> tracked_of(v.left)]
      [] v.kind = "Right" -> [kind |-> "Right", right |-> tracked_of(v.right)]
      [] v.kind = "Both" ->
            [kind |-> "Both", left |-> tracked_of(v.left),
                              right |-> tracked_of(v.right)]

\* Trackable::into_tracked(self, changes)
into_tracked(m, v) == [changes |-> m, tracked |-> tracked_of(v)]

IsLeaf(p) == p.kind \in {"TrackedRef", "TrackedMut"}

\* the paths to the leaf projections of a projection
RECURSIVE Paths(_)
Paths(p) ==
    CASE IsLeaf(p) -> {<<>>}
      [] p.kind = "None" -> {}
      [] p.kind = "NoProj" -> {}
      [] p.kind = "Some" -> {<<1>> \o q : q \in Paths(p.inner)}
      [] p.kind = "Tuple" ->
            UNION {{<<i>> \o q : q \in Paths(p.elems[i])} : i \in DOMAIN p.elems}
      [] p.kind = "Left" -> {<<1>> \o q : q \in Paths(p.left)}
      [] p.kind = "Right" -> {<<2>> \o q : q \in Paths(p.right)}
      [] p.kind = "Both" ->
            {<<1>> \o q : q \in Paths(p.left)}
            \cup {<<2>> \o q : q \in Paths(p.right)}

RECURSIVE LeafAt(_, _)
LeafAt(p, path) ==
    IF path = <<>> THEN p
    ELSE CASE p.kind = "Some" -> LeafAt(p.inner, Tail(path))
           [] p.kind = "Tuple" -> LeafAt(p.elems[Head(path)], Tail(path))
           [] p.kind \in {"Left", "Right", "Both"} ->
                LeafAt(IF Head(path) = 1 THEN p.left ELSE p.right, Tail(path))

\* variant of the store: the value written does not reach the leaf
StoreAt_lost(p, path, v) == p

\* *r = v at the leaf a path leads to
RECURSIVE StoreAt(_, _, _)
StoreAt(p, path, v) ==
    IF path = <<>> THEN [p EXCEPT !.value = v]
    ELSE CASE p.kind = "Some" ->
                [p EXCEPT !.inner = StoreAt(p.inner, Tail(path), v)]
           [] p.kind = "Tuple" ->
                [p EXCEPT !.elems[Head(path)] =
                    StoreAt(p.elems[Head(path)], Tail(path), v)]
           [] p.kind \in {"Left", "Right", "Both"} ->
                IF Head(path) = 1
                THEN [p EXCEPT !.left = StoreAt(p.left, Tail(path), v)]
                ELSE [p EXCEPT !.right = StoreAt(p.right, Tail(path), v)]

\* variant of TrackedRef::set_changed: returns without a store
TrackedRef_set_changed_noop(m, leaf) == [panic |-> FALSE, changes |-> m]

\* TrackedRef::set_changed
TrackedRef_set_changed(m, leaf) == set_changed(m, ElementTypeId_of(leaf.ty))

\* TrackedMut::set_changed
TrackedMut_set_changed(m, leaf) == set_changed(m, ElementTypeId_of(leaf.ty))

\* variant of deref: the shared dereference marks, as deref_mut does
deref_marking(m, leaf) ==
    [changes |-> IF ElementTypeId_of(leaf.ty) \in DOMAIN m
                 THEN [m EXCEPT ![ElementTypeId_of(leaf.ty)] = TRUE]
                 ELSE m,
     target |-> leaf.value]

\* Deref::deref of TrackedRef and of TrackedMut
deref(m, leaf) == [changes |-> m, target |-> leaf.value]

\* variant of deref_mut: the reference is returned without set_changed
deref_mut_unmarked(m, leaf) ==
    [panic |-> FALSE, changes |-> m, granted |-> TRUE]

\* DerefMut::deref_mut of TrackedMut: granted when &mut *(self.value) is returned
deref_mut(m, leaf) ==
    LET r == TrackedMut_set_changed(m, leaf)
    IN [panic |-> r.panic, changes |-> r.changes, granted |-> ~r.panic]

----------------------------------------------------------------------------
(* Query adaptor: src/query/hecs/query.rs.  The world holds records with a  *)
(* u32 and an i32 component, and the query is (&mut u32, &i32).             *)

NoQuery == [stage |-> "none", pos |-> 0]

\* the QueryItem of record i
QueryItem(w, i) ==
    [kind |-> "Tuple",
     elems |-> << [kind |-> "Mut", ty |-> "u32", value |-> w[i].u32],
                  [kind |-> "Ref", ty |-> "i32", value |-> w[i].i32] >>]

\* hecs QueryIter::next: the records in order, the entity being the index
QueryIter_next(w, pos) ==
    IF pos < Len(w)
    THEN [some |-> TRUE, entity |-> pos + 1, components |-> QueryItem(w, pos + 1),
          pos |-> pos + 1]
    ELSE [some |-> FALSE, pos |-> pos]

\* hecs QueryIter::len
QueryIter_len(w, pos) == Len(w) - pos

\* TrackedQueryBorrow::new, by QueryBorrow::into_tracked
TrackedQueryBorrow_new(m) == [changes |-> m, query |-> [stage |-> "borrow", pos |-> 0]]

\* variant of iter: the u32 the query borrows mutably is marked up front
TrackedQueryBorrow_iter_marking(m, q) ==
    [changes |-> IF ElementTypeId_of("u32") \in DOMAIN m
                 THEN [m EXCEPT ![ElementTypeId_of("u32")] = TRUE]
                 ELSE m,
     query |-> [stage |-> "iter", pos |-> 0]]

\* TrackedQueryBorrow::iter
TrackedQueryBorrow_iter(m, q) == [changes |-> m, query |-> [stage |-> "iter", pos |-> 0]]

\* TrackedQueryIter::next
TrackedQueryIter_next(m, w, q) ==
    LET n == QueryIter_next(w, q.pos)
    IN IF n.some
       THEN LET t == into_tracked(m, n.components)
            IN [some |-> TRUE, entity |-> n.entity, tracked |-> t.tracked,
                changes |-> t.changes, query |-> [q EXCEPT !.pos = n.pos]]
       ELSE [some |-> FALSE, entity |-> 0, tracked |-> NoProj,
             changes |-> m, query |-> [q EXCEPT !.pos = n.pos]]

\* variant of size_hint: the lower bound is left at 0
TrackedQueryIter_size_hint_default(w, q) == <<0, QueryIter_len(w, q.pos)>>

\* TrackedQueryIter::size_hint
TrackedQueryIter_size_hint(w, q) ==
    <<QueryIter_len(w, q.pos), QueryIter_len(w, q.pos)>>

\* TrackedQueryIter::len
TrackedQueryIter_len(w, q) == QueryIter_len(w, q.pos)

----------------------------------------------------------------------------
(* Actions.  Conversions of local values and queries over a world are       *)
(* explored apart: a local value is converted only while the world is       *)
(* empty.                                                                   *)

NotSeen == [valid |-> FALSE, visited |-> <<>>]

\* no thread has been spawned: the registry is used from one thread
NoThreads == <<>>

Init ==
    /\ typeId \in TypeIdAssignments
    /\ changes = Changes_new
    /\ pc = "new"
    /\ tracked = NoProj
    /\ mutref = NoRef
    /\ world = <<>>
    /\ query = NoQuery
    /\ op = [name |-> "init"]
    /\ before = Changes_new
    /\ marked = {}
    /\ seen = NotSeen
    /\ threads = NoThreads

\* let changes = Changes::new_for(&value)
NewFor(s) ==
    /\ pc = "new"
    /\ changes' = new_for(s)
    /\ pc' = "built"
    /\ op' = [name |-> "new_for", shape |-> s]
    /\ before' = changes
    /\ UNCHANGED <<typeId, threads, tracked, mutref, world, query, marked, seen>>

\* changes.reserve(t): needs &mut Changes, so nothing borrows the registry
Reserve(T) ==
    /\ pc = "built"
    /\ tracked = NoProj
    /\ query = NoQuery
    /\ changes' = reserve(changes, ElementTypeId_of(T))
    /\ op' = [name |-> "reserve", ty |-> T]
    /\ before' = changes
    /\ UNCHANGED <<typeId, threads, pc, tracked, mutref, world, query, marked, seen>>

\* changes.set_changed(t)
SetChanged(T) ==
    /\ pc = "built"
    /\ LET r == set_changed(changes, ElementTypeId_of(T))
       IN /\ changes' = r.changes
          /\ pc' = IF r.panic THEN "panicked" ELSE pc
          /\ marked' = IF r.panic THEN marked
                       ELSE marked \cup {ElementTypeId_of(T)}
          /\ op' = [name |-> "set_changed", ty |-> T, panic |-> r.panic]
    /\ before' = changes
    /\ seen' = NotSeen
    /\ UNCHANGED <<typeId, threads, tracked, mutref, world, query>>

\* changes.is_changed(t)
IsChanged(T) ==
    /\ pc = "built"
    /\ LET r == is_changed(changes, ElementTypeId_of(T))
       IN /\ changes' = r.changes
          /\ pc' = IF r.panic THEN "panicked" ELSE pc
          /\ op' = [name |-> "is_changed", ty |-> T, panic |-> r.panic,
                    ret |-> r.ret]
    /\ before' = changes
    /\ UNCHANGED <<typeId, threads, tracked, mutref, world, query, marked, seen>>

\* changes.for_each_changed(|t| visited.push(t))
ForEachChanged ==
    /\ pc = "built"
    /\ LET r == for_each_changed(changes)
       IN /\ changes' = r.changes
          /\ op' = [name |-> "for_each_changed", visited |-> r.visited,
                    again |-> seen.valid, last |-> seen.visited]
          /\ seen' = [valid |-> TRUE, visited |-> r.visited]
    /\ before' = changes
    /\ UNCHANGED <<typeId, threads, pc, tracked, mutref, world, query, marked>>

\* changes.get_atomic(t)
GetAtomic(T) ==
    /\ pc = "built"
    /\ LET r == get_atomic(changes, ElementTypeId_of(T))
       IN /\ changes' = r.changes
          /\ op' = [name |-> "get_atomic", ty |-> T, some |-> r.some,
                    cell |-> r.cell]
    /\ before' = changes
    /\ UNCHANGED <<typeId, threads, pc, tracked, mutref, world, query, marked, seen>>

\* let tracked = value.into_tracked(&changes)
IntoTracked(v) ==
    /\ pc = "built"
    /\ tracked = NoProj
    /\ world = <<>>
    /\ LET r == into_tracked(changes, v)
       IN /\ changes' = r.changes
          /\ tracked' = r.tracked
    /\ op' = [name |-> "into_tracked", value |-> v]
    /\ before' = changes
    /\ UNCHANGED <<typeId, threads, pc, mutref, world, query, marked, seen>>

Borrowed(path) == mutref.live /\ mutref.path = path

\* *leaf, a shared dereference
Deref(path) ==
    /\ pc = "built"
    /\ path \in Paths(tracked)
    /\ ~Borrowed(path)
    /\ LET r == deref(changes, LeafAt(tracked, path))
       IN /\ changes' = r.changes
          /\ op' = [name |-> "deref", path |-> path, ret |-> r.target]
    /\ before' = changes
    /\ UNCHANGED <<typeId, threads, pc, tracked, mutref, world, query, marked, seen>>

\* &mut *leaf, the mutable dereference of a TrackedMut
DerefMut(path) ==
    /\ pc = "built"
    /\ path \in Paths(tracked)
    /\ LeafAt(tracked, path).kind = "TrackedMut"
    /\ ~mutref.live
    /\ LET leaf == LeafAt(tracked, path)
           r == deref_mut(changes, leaf)
       IN /\ changes' = r.changes
          /\ pc' = IF r.panic THEN "panicked" ELSE pc
          /\ mutref' = IF r.granted THEN [live |-> TRUE, path |-> path] ELSE mutref
          /\ marked' = IF r.panic THEN marked
                       ELSE marked \cup {ElementTypeId_of(leaf.ty)}
          /\ op' = [name |-> "deref_mut", path |-> path, ty |-> leaf.ty,
                    panic |-> r.panic]
    /\ before' = changes
    /\ seen' = NotSeen
    /\ UNCHANGED <<typeId, threads, tracked, world, query>>

\* leaf.set_changed() of a TrackedRef or a TrackedMut
TrackedSetChanged(path) ==
    /\ pc = "built"
    /\ path \in Paths(tracked)
    /\ ~Borrowed(path)
    /\ LET leaf == LeafAt(tracked, path)
           r == IF leaf.kind = "TrackedRef"
                THEN TrackedRef_set_changed(changes, leaf)
                ELSE TrackedMut_set_changed(changes, leaf)
       IN /\ changes' = r.changes
          /\ pc' = IF r.panic THEN "panicked" ELSE pc
          /\ marked' = IF r.panic THEN marked
                       ELSE marked \cup {ElementTypeId_of(leaf.ty)}
          /\ op' = [name |-> "tracked_set_changed", path |-> path,
                    ty |-> leaf.ty, panic |-> r.panic]
    /\ before' = changes
    /\ seen' = NotSeen
    /\ UNCHANGED <<typeId, threads, tracked, mutref, world, query>>

\* *r = v through the reference deref_mut returned, which then ends; the
\* reference of a query item points into the world
Write(v) ==
    /\ pc = "built"
    /\ mutref.live
    /\ tracked' = StoreAt(tracked, mutref.path, v)
    /\ world' = IF query.stage = "iter"
                THEN [world EXCEPT ![query.pos].u32 = v]
                ELSE world
    /\ mutref' = NoRef
    /\ op' = [name |-> "write", path |-> mutref.path, value |-> v]
    /\ before' = changes
    /\ UNCHANGED <<typeId, threads, changes, pc, query, marked, seen>>

\* the reference deref_mut returned ends without a write
Release ==
    /\ pc = "built"
    /\ mutref.live
    /\ mutref' = NoRef
    /\ op' = [name |-> "release", path |-> mutref.path]
    /\ before' = changes
    /\ UNCHANGED <<typeId, threads, changes, pc, tracked, world, query, marked, seen>>

\* the projection goes out of scope
Drop ==
    /\ pc = "built"
    /\ tracked # NoProj
    /\ ~mutref.live
    /\ tracked' = NoProj
    /\ op' = [name |-> "drop"]
    /\ before' = changes
    /\ UNCHANGED <<typeId, threads, changes, pc, mutref, world, query, marked, seen>>

\* world.spawn((n, n)) for the n-th record, counted from 0: needs &mut World
Spawn ==
    /\ pc = "built"
    /\ tracked = NoProj
    /\ query = NoQuery
    /\ Len(world) < MaxRecords
    /\ LET n == Len(world) % (MaxValue + 1)
       IN world' = Append(world, [u32 |-> n, i32 |-> n])
    /\ op' = [name |-> "spawn"]
    /\ before' = changes
    /\ UNCHANGED <<typeId, threads, changes, pc, tracked, mutref, query, marked, seen>>

\* world.query::<(&mut u32, &i32)>().into_tracked(&changes)
QueryIntoTracked ==
    /\ pc = "built"
    /\ tracked = NoProj
    /\ world # <<>>
    /\ query = NoQuery
    /\ LET r == TrackedQueryBorrow_new(changes)
       IN /\ changes' = r.changes
          /\ query' = r.query
    /\ op' = [name |-> "query_into_tracked"]
    /\ before' = changes
    /\ UNCHANGED <<typeId, threads, pc, tracked, mutref, world, marked, seen>>

\* borrow.iter()
QueryIter ==
    /\ pc = "built"
    /\ query.stage = "borrow"
    /\ LET r == TrackedQueryBorrow_iter(changes, query)
       IN /\ changes' = r.changes
          /\ query' = r.query
    /\ op' = [name |-> "query_iter"]
    /\ before' = changes
    /\ UNCHANGED <<typeId, threads, pc, tracked, mutref, world, marked, seen>>

\* iter.next(), once the item before it is dropped
QueryNext ==
    /\ pc = "built"
    /\ query.stage = "iter"
    /\ tracked = NoProj
    /\ LET r == TrackedQueryIter_next(changes, world, query)
       IN /\ changes' = r.changes
          /\ query' = r.query
          /\ tracked' = r.tracked
          /\ op' = [name |-> "query_next", some |-> r.some, entity |-> r.entity,
                    left |-> TrackedQueryIter_len(world, r.query)]
    /\ before' = changes
    /\ UNCHANGED <<typeId, threads, pc, mutref, world, marked, seen>>

\* the iterator, then the borrow, go out of scope
QueryDrop ==
    /\ pc = "built"
    /\ query # NoQuery
    /\ tracked = NoProj
    /\ query' = IF query.stage = "iter" THEN [stage |-> "borrow", pos |-> 0]
                ELSE NoQuery
    /\ op' = [name |-> "query_drop"]
    /\ before' = changes
    /\ UNCHANGED <<typeId, threads, changes, pc, tracked, mutref, world, marked, seen>>

Next ==
    \/ \E s \in Shapes : NewFor(s)
    \/ \E T \in LeafTypes : Reserve(T)
    \/ \E T \in LeafTypes : SetChanged(T)
    \/ \E T \in LeafTypes : IsChanged(T)
    \/ ForEachChanged
    \/ \E T \in LeafTypes : GetAtomic(T)
    \/ \E v \in AllValues : IntoTracked(v)
    \/ \E path \in Paths(tracked) : Deref(path)
    \/ \E path \in Paths(tracked) : DerefMut(path)
    \/ \E path \in Paths(tracked) : TrackedSetChanged(path)
    \/ \E v \in Values : Write(v)
    \/ Release
    \/ Drop
    \/ Spawn
    \/ QueryIntoTracked
    \/ QueryIter
    \/ QueryNext
    \/ QueryDrop

Spec == Init /\ [][Next]_vars

----------------------------------------------------------------------------
(* Properties *)

\* the identity of the leaf projection a path of tracked leads to
LeafId(path) == ElementTypeId_of(LeafAt(tracked, path).ty)

\* the flag of an identity is reserved and true
Flagged(t) == t \in DOMAIN changes /\ changes[t]

\* C1: write barrier. Whenever deref_mut of a TrackedMut<T> is called on a
\* registry that reserved T, it returns the reference and the flag of T is
\* true from the moment the reference is handed out: while the reference is
\* held, and after it ends with a write or without one.
C1_WriteBarrier ==
    /\ mutref.live => Flagged(LeafId(mutref.path))
    /\ (op.name = "deref_mut" /\ ElementTypeId_of(op.ty) \in DOMAIN before)
           => /\ ~op.panic
              /\ mutref = [live |-> TRUE, path |-> op.path]
              /\ Flagged(ElementTypeId_of(op.ty))
    /\ op.name \in {"write", "release"} => Flagged(LeafId(op.path))

\* C1 witness: a reference handed out for a flag that was false has ended
\* without a write, and the flag is true.
C1_Witness ==
    /\ op.name = "release"
    /\ Flagged(LeafId(op.path))
    /\ Cardinality(marked) = 1

\* C2: read transparency. A shared dereference of a TrackedRef or TrackedMut
\* leaves the registry as it was: no flag and no key changes.
C2_ReadTransparency ==
    op.name = "deref" => changes = before

\* C2 witness: a TrackedMut whose type is reserved was dereferenced for
\* reading and its flag is still false.
C2_Witness ==
    /\ op.name = "deref"
    /\ LeafAt(tracked, op.path).kind = "TrackedMut"
    /\ LeafId(op.path) \in DOMAIN changes
    /\ ~changes[LeafId(op.path)]

\* C3: no spurious flags. Right after Changes::new_for(shape), for every
\* shape, the registry holds the identities for_each_type enumerates, every
\* flag is false and for_each_changed visits nothing.
C3_NoSpuriousFlags ==
    op.name = "new_for" =>
        /\ DOMAIN changes =
              {for_each_type(op.shape)[i][1] :
                  i \in DOMAIN for_each_type(op.shape)}
        /\ \A t \in DOMAIN changes : ~changes[t]
        /\ for_each_changed(changes).visited = <<>>

\* C3 witness: the registry was just built for a nested shape with two leaf types.
C3_Witness ==
    /\ op.name = "new_for"
    /\ op.shape = Tuple(<<Opt(Ref("i32")), Tuple(<<Mut("f32")>>)>>)
    /\ Cardinality(DOMAIN changes) = 2

\* C4: exact attribution. For a tuple projection with a TrackedMut element of
\* type A and an element of another type B: when A has been marked and
\* nothing but A has been marked, the flag of A is true and the flag of B is
\* false.
C4_ExactAttribution ==
    \A pa, pb \in Paths(tracked) :
        ( /\ tracked.kind = "Tuple"
          /\ LeafAt(tracked, pa).kind = "TrackedMut"
          /\ LeafAt(tracked, pb).ty # LeafAt(tracked, pa).ty
          /\ marked = {LeafId(pa)} )
        => /\ Flagged(LeafId(pa))
           /\ ~Flagged(LeafId(pb))
           /\ is_changed(changes, LeafId(pb)).ret = FALSE

\* C4 witness: in (&mut u32, &i32) with both types reserved, a value was
\* written through the u32 element; u32 is flagged and i32 is not.
C4_Witness ==
    /\ op.name = "write"
    /\ op.path = <<1>>
    /\ tracked.kind = "Tuple"
    /\ Paths(tracked) = {<<1>>, <<2>>}
    /\ LeafAt(tracked, <<2>>).ty = "i32"
    /\ marked = {ElementTypeId_of("u32")}
    /\ Flagged(ElementTypeId_of("u32"))
    /\ ElementTypeId_of("i32") \in DOMAIN changes
    /\ ~changes[ElementTypeId_of("i32")]

\* C5: flag monotonicity. No call turns a flag from true to false or removes
\* its key: a flag that was true when a call began is true when it returns.
C5_FlagMonotonic ==
    \A t \in DOMAIN before : before[t] => Flagged(t)

\* C5 witness: reserve was called for an identity whose flag was already
\* true, and the flag is still true.
C5_Witness ==
    /\ op.name = "reserve"
    /\ ElementTypeId_of(op.ty) \in DOMAIN before
    /\ before[ElementTypeId_of(op.ty)]
    /\ Flagged(ElementTypeId_of(op.ty))

\* C6: fixed key set. Once the registry is built, every call other than
\* reserve (set_changed, is_changed, for_each_changed, get_atomic,
\* conversions, projection accesses, query iteration) leaves the set of
\* reserved identities as it was.
C6_FixedKeySet ==
    op.name \notin {"init", "new_for", "reserve"}
        => DOMAIN changes = DOMAIN before

\* C6 witness: a query over a registry with marks yielded an item and the
\* key set is the one before the step.
C6_Witness ==
    /\ op.name = "query_next"
    /\ op.some
    /\ marked # {}
    /\ DOMAIN changes = DOMAIN before
    /\ DOMAIN changes # LeafTypes

\* C7: set_changed of an identity the registry never reserved panics, adds
\* no key and changes no flag.
C7_UnreservedMarkPanics ==
    (op.name = "set_changed" /\ ElementTypeId_of(op.ty) \notin DOMAIN before)
        => /\ op.panic
           /\ pc = "panicked"
           /\ changes = before

\* C7 witness: set_changed panicked on a registry that holds a true flag.
C7_Witness ==
    /\ op.name = "set_changed"
    /\ pc = "panicked"
    /\ ElementTypeId_of(op.ty) \notin DOMAIN changes
    /\ \E t \in DOMAIN changes : changes[t]

\* C8: is_changed never fails and changes nothing. It returns false for an
\* identity never reserved, and for a reserved identity it returns true
\* exactly when a mark of that identity has happened.
C8_IsChangedTotal ==
    op.name = "is_changed" =>
        LET t == ElementTypeId_of(op.ty)
        IN /\ ~op.panic
           /\ pc = "built"
           /\ changes = before
           /\ t \notin DOMAIN changes => op.ret = FALSE
           /\ t \in DOMAIN changes => op.ret = (t \in marked)

\* C8 witness: is_changed of an unreserved identity returned false on a
\* registry that holds a true flag.
C8_Witness ==
    /\ op.name = "is_changed"
    /\ ElementTypeId_of(op.ty) \notin DOMAIN changes
    /\ op.ret = FALSE
    /\ pc = "built"
    /\ marked # {}

\* C9: for_each_changed visits exactly the reserved identities whose flag is
\* true, in strictly ascending order of ElementTypeId, so each once.
C9_VisitsChangedAscending ==
    op.name = "for_each_changed" =>
        /\ {op.visited[i] : i \in DOMAIN op.visited}
              = {t \in DOMAIN before : before[t]}
        /\ \A i, j \in DOMAIN op.visited :
              i < j => ElementTypeId_lt(op.visited[i], op.visited[j])

\* C9 witness: two of three reserved identities were flagged and visited.
C9_Witness ==
    /\ op.name = "for_each_changed"
    /\ Len(op.visited) = 2
    /\ Cardinality(DOMAIN changes) = 3

\* C10: for_each_changed is a pure observation. It leaves the flags and the
\* keys as they were, and when no mark has happened since the invocation
\* before it, it visits the same identities in the same order.
C10_ForEachChangedPure ==
    op.name = "for_each_changed" =>
        /\ changes = before
        /\ op.again => op.visited = op.last

\* C10 witness: for_each_changed was invoked again with no mark in between,
\* after other calls, and visited a flagged identity.
C10_Witness ==
    /\ op.name = "for_each_changed"
    /\ op.again
    /\ Len(op.visited) = 2
    /\ Cardinality(DOMAIN changes) = 3
    /\ tracked # NoProj

\* the identities a shape enumerates, duplicates collapsed
TypeIdsOf(s) == {for_each_type(s)[i][1] : i \in DOMAIN for_each_type(s)}

\* the number of positions of a sequence that hold x
Occurrences(seq, x) == Cardinality({i \in DOMAIN seq : seq[i] = x})

\* the paths of tracked whose leaf has the type of the leaf at path, path aside
SharingPaths(path) ==
    {q \in Paths(tracked) \ {path} : LeafId(q) = LeafId(path)}

\* C11: shared-type collapse. A registry built for a shape that holds one
\* leaf type at two positions has one cell per distinct identity, so one cell
\* for the repeated type; and a mutable access through the projection of
\* either position sets that cell: afterwards is_changed of the type is true
\* and for_each_changed visits the type once.
C11_SharedTypeCollapse ==
    /\ (op.name = "new_for"
            /\ Cardinality(TypeIdsOf(op.shape)) < Len(for_each_type(op.shape)))
       => /\ DOMAIN changes = TypeIdsOf(op.shape)
          /\ Cardinality(DOMAIN changes) = Cardinality(TypeIdsOf(op.shape))
    /\ (op.name = "deref_mut" /\ ~op.panic /\ SharingPaths(op.path) # {})
       => /\ Flagged(LeafId(op.path))
          /\ is_changed(changes, LeafId(op.path)).ret
          /\ Occurrences(for_each_changed(changes).visited,
                         LeafId(op.path)) = 1

\* the second u32 of a (&mut u32, &mut u32) is accessed mutably while the
\* first shares its one cell, first set by this access
C11_Witness ==
    /\ op.name = "deref_mut"
    /\ ~op.panic
    /\ op.path = <<2>>
    /\ SharingPaths(op.path) = {<<1>>}
    /\ DOMAIN changes = {ElementTypeId_of("u32")}
    /\ ~before[ElementTypeId_of("u32")]
    /\ Flagged(ElementTypeId_of("u32"))

\* C12: leaf count. As claimed: count_types of a shape is the number of
\* distinct identities for_each_type enumerates, which is the number of cells
\* of the registry built for the shape, shapes that repeat a leaf type
\* included.
C12_CountIsDistinct ==
    op.name = "new_for"
    => /\ count_types(op.shape) = Cardinality(TypeIdsOf(op.shape))
       /\ count_types(op.shape) = Cardinality(DOMAIN changes)

----------------------------------------------------------------------------
(* Absent optional: the None of an Option<&mut u32> has just been converted *)
(* with a registry whose flags are all false, and from then on flags are    *)
(* set by mutable accesses through projections only.                        *)

InitAbsent ==
    /\ typeId \in TypeIdAssignments
    /\ changes \in {new_for(s) : s \in Shapes}
    /\ pc = "built"
    /\ tracked = into_tracked(changes, None).tracked
    /\ mutref = NoRef
    /\ world = <<>>
    /\ query = NoQuery
    /\ op = [name |-> "into_tracked", value |-> None]
    /\ before = changes
    /\ marked = {}
    /\ seen = NotSeen
    /\ threads = NoThreads

NextAbsent ==
    \/ \E T \in LeafTypes : IsChanged(T)
    \/ ForEachChanged
    \/ \E v \in AllValues : IntoTracked(v)
    \/ \E path \in Paths(tracked) : Deref(path)
    \/ \E path \in Paths(tracked) : DerefMut(path)
    \/ \E v \in Values : Write(v)
    \/ Release
    \/ Drop

SpecAbsent == InitAbsent /\ [][NextAbsent]_vars

\* C13 as claimed: once the None of an Option<&mut u32> is converted, the
\* flag of u32 stays false, also when u32 is mutated through a projection of
\* another shape bound to the same registry.
C13_AbsentStaysUnflagged == ~Flagged(ElementTypeId_of("u32"))

\* C13, amended: converting a None yields None, a projection without a leaf,
\* and the conversion changes no flag; after it the flag of u32 is true only
\* if u32 was marked through another projection bound to the same registry.
C13_AbsentIsInert ==
    /\ (op.name = "into_tracked" /\ op.value = None)
       => /\ tracked = None
          /\ Paths(tracked) = {}
          /\ changes = before
    /\ \A t \in DOMAIN changes : changes[t] => t \in marked

\* a None is converted after f32 was mutated through another projection: the
\* flag of f32 stays true and the reserved flag of u32 stays false
C13_Witness ==
    /\ op.name = "into_tracked"
    /\ op.value = None
    /\ tracked = None
    /\ ElementTypeId_of("u32") \in DOMAIN changes
    /\ ~changes[ElementTypeId_of("u32")]
    /\ Flagged(ElementTypeId_of("f32"))

----------------------------------------------------------------------------
(* Properties of Spec, continued *)

\* the identities whose flag is true
FlaggedSet == {t \in DOMAIN changes : changes[t]}

\* the shape Or<&mut u32, &mut f32>: u32 on the left, f32 on the right
OrDistinct == Or(Mut("u32"), Mut("f32"))

\* C14: sum branch isolation. With a registry built for Or<&mut u32, &mut
\* f32> and a projection of that shape, after a mutable access through the
\* projection: when only the left branch is engaged and u32 is what has been
\* mutated, exactly u32 is flagged; when both branches are engaged and only
\* f32 has been mutated, exactly f32 is flagged; when both are engaged and
\* both have been mutated, exactly u32 and f32 are flagged.
C14_OrBranchIsolation ==
    LET U == ElementTypeId_of("u32")
        V == ElementTypeId_of("f32")
    IN ( /\ op.name \in {"deref_mut", "write", "release"}
         /\ DOMAIN changes = TypeIdsOf(OrDistinct)
         /\ tracked \in {tracked_of(v) : v \in ValuesOf(OrDistinct)} )
       => /\ (tracked.kind = "Left" /\ marked = {U}) => FlaggedSet = {U}
          /\ (tracked.kind = "Both" /\ marked = {V}) => FlaggedSet = {V}
          /\ (tracked.kind = "Both" /\ marked = {U, V}) => FlaggedSet = {U, V}

\* both branches are engaged and a value was written through the right one
\* only: f32 is flagged and u32, reserved, is not
C14_Witness ==
    /\ tracked \in {tracked_of(v) : v \in ValuesOf(OrDistinct)}
    /\ tracked.kind = "Both"
    /\ op.name = "write"
    /\ op.path = <<2>>
    /\ DOMAIN changes = TypeIdsOf(OrDistinct)
    /\ marked = {ElementTypeId_of("f32")}
    /\ FlaggedSet = {ElementTypeId_of("f32")}

\* p is the projection of the raw leaf v: TrackedMut of a &mut T, TrackedRef
\* of a &T, over the same value of the same type
ProjectionOfLeaf(p, v) ==
    /\ p.kind = IF v.kind = "Mut" THEN "TrackedMut" ELSE "TrackedRef"
    /\ p.ty = v.ty
    /\ p.value = v.value

\* C15: the conversion of an Or value keeps its engagement: Left converts to
\* Left, Right to Right, Both to Both; an engaged branch holds the
\* projection of that branch's value, a branch that is not engaged gets no
\* projection, and the conversion changes no flag.
C15_OrKeepsEngagement ==
    (op.name = "into_tracked" /\ op.value.kind \in {"Left", "Right", "Both"})
    => /\ tracked.kind = op.value.kind
       /\ DOMAIN tracked = DOMAIN op.value
       /\ "left" \in DOMAIN op.value
            => ProjectionOfLeaf(tracked.left, op.value.left)
       /\ "right" \in DOMAIN op.value
            => ProjectionOfLeaf(tracked.right, op.value.right)
       /\ Paths(tracked) =
              (IF "left" \in DOMAIN op.value THEN {<<1>>} ELSE {})
              \cup (IF "right" \in DOMAIN op.value THEN {<<2>>} ELSE {})
       /\ changes = before

\* an Or::Both of Or<&mut u32, &u32> with different branch values was
\* converted over a registry that holds a true flag
C15_Witness ==
    /\ op.name = "into_tracked"
    /\ op.value.kind = "Both"
    /\ tracked.kind = "Both"
    /\ tracked.left.kind = "TrackedMut"
    /\ tracked.right.kind = "TrackedRef"
    /\ tracked.left.value # tracked.right.value
    /\ FlaggedSet # {}

\* C16: the query adaptor is one to one with the iterator it wraps. Each
\* next yields what the wrapped iterator yields at the same point: the same
\* entity with the projection of its components, in the same order, and
\* nothing exactly when the wrapped iterator has ended; and at every point
\* size_hint and len are those of the wrapped iterator.
C16_AdaptorOneToOne ==
    /\ query.stage = "iter"
       => /\ TrackedQueryIter_len(world, query) = QueryIter_len(world, query.pos)
          /\ TrackedQueryIter_size_hint(world, query)
                = <<QueryIter_len(world, query.pos),
                    QueryIter_len(world, query.pos)>>
    /\ (op.name = "query_next" /\ op.some)
       => /\ query.pos >= 1
          /\ LET n == QueryIter_next(world, query.pos - 1)
             IN /\ n.some
                /\ n.pos = query.pos
                /\ op.entity = n.entity
                /\ tracked.kind = "Tuple"
                /\ DOMAIN tracked.elems = DOMAIN n.components.elems
                /\ \A i \in DOMAIN tracked.elems :
                      ProjectionOfLeaf(tracked.elems[i], n.components.elems[i])
                /\ op.left = QueryIter_len(world, n.pos)
    /\ (op.name = "query_next" /\ ~op.some)
       => /\ ~QueryIter_next(world, query.pos).some
          /\ tracked = NoProj
          /\ op.left = 0

\* the second of two records was yielded, after a write through the first
\* item, and the iterator has nothing left
C16_Witness ==
    /\ op.name = "query_next"
    /\ op.some
    /\ op.entity = 2
    /\ op.left = 0
    /\ Len(world) = 2
    /\ world[1].u32 # 0
    /\ tracked.elems[1].value = world[2].u32

\* a sequence of for_each_type calls without the calls that repeat the
\* identity of an earlier call
RECURSIVE Dedup(_)
Dedup(calls) ==
    IF calls = <<>> THEN <<>>
    ELSE LET init == Dedup(SubSeq(calls, 1, Len(calls) - 1))
             last == calls[Len(calls)]
         IN IF \E i \in DOMAIN init : init[i][1] = last[1]
            THEN init
            ELSE Append(init, last)

\* C19: reservation is idempotent. Reserving an identity that is already
\* reserved changes neither the key set nor a flag (a true flag is not
\* reset), so the registry built by walking a shape equals the registry built
\* from the same leaf types with the duplicates removed.
C19_ReserveIdempotent ==
    /\ (op.name = "reserve" /\ ElementTypeId_of(op.ty) \in DOMAIN before)
       => changes = before
    /\ op.name = "new_for"
       => changes = reserve_each(Changes_new, Dedup(for_each_type(op.shape)))

\* an identity was reserved again in a registry of two identities while the
\* flag of the other one was true and its own was false
C19_Witness ==
    /\ op.name = "reserve"
    /\ ElementTypeId_of(op.ty) \in DOMAIN before
    /\ Cardinality(DOMAIN changes) = 2
    /\ ~changes[ElementTypeId_of(op.ty)]
    /\ FlaggedSet # {}
    /\ changes = before

\* C20: type identity. The identities of one leaf type are equal and hash
\* alike; the identities of two leaf types are never equal; of a < b, a = b
\* and a > b exactly one holds; and two identities are equal exactly when
\* their ids are, with the hash made of the id alone: the name decides
\* nothing.
C20_TypeIdentity ==
    \A A, B \in LeafTypes :
        LET a == ElementTypeId_of(A)
            b == ElementTypeId_of(B)
            lt == ElementTypeId_lt(a, b)
            gt == ElementTypeId_lt(b, a)
            eq == ElementTypeId_eq(a, b)
        IN /\ A = B => (eq /\ ElementTypeId_hash(a) = ElementTypeId_hash(b))
           /\ A # B => ~eq
           /\ lt \/ eq \/ gt
           /\ ~(lt /\ eq) /\ ~(eq /\ gt) /\ ~(lt /\ gt)
           /\ eq <=> (a.id = b.id)
           /\ eq <=> (ElementTypeId_hash(a) = ElementTypeId_hash(b))

\* the cells of three identities were looked up by identity: the one asked
\* for is found true among three, the other two being false
C20_Witness ==
    /\ op.name = "get_atomic"
    /\ op.some
    /\ op.cell
    /\ Cardinality(DOMAIN changes) = 3
    /\ FlaggedSet = {ElementTypeId_of(op.ty)}

----------------------------------------------------------------------------
(* The pass nullify_ten_plus of src/query/hecs/query.rs, run any number of  *)
(* times with one registry over a world whose records are spawned in the    *)
(* order of the test.                                                       *)

\* the u32 at or above which the pass writes
Threshold == 10

\* the n of the records (n, n) the test spawns, in order
PassRecords == <<0, 1, 10, 11>>

\* the shape of the query item
PassShape == Tuple(<<Mut("u32"), Ref("i32")>>)

InitPass ==
    /\ typeId \in TypeIdAssignments
    /\ changes = new_for(PassShape)
    /\ pc = "built"
    /\ tracked = NoProj
    /\ mutref = NoRef
    /\ world = <<>>
    /\ query = NoQuery
    /\ op = [name |-> "new_for", shape |-> PassShape]
    /\ before = Changes_new
    /\ marked = {}
    /\ seen = NotSeen
    /\ threads = NoThreads

\* world.spawn((n, n, ..)) of the next record
PassSpawn ==
    /\ tracked = NoProj
    /\ query = NoQuery
    /\ Len(world) < Len(PassRecords)
    /\ LET n == PassRecords[Len(world) + 1]
       IN world' = Append(world, [u32 |-> n, i32 |-> n])
    /\ op' = [name |-> "spawn"]
    /\ before' = changes
    /\ UNCHANGED <<typeId, threads, changes, pc, tracked, mutref, query,
                   marked, seen>>

\* .iter() on the borrow into_tracked has just returned
PassIter == op.name = "query_into_tracked" /\ QueryIter

\* for_each asks for the next item once the closure has returned
PassNext == op.name \in {"query_iter", "drop"} /\ QueryNext

\* *v >= 10: the closure reads the u32 of the item it was given
PassRead == op.name = "query_next" /\ op.some /\ Deref(<<1>>)

\* &mut *v, taken for the assignment when the u32 read is 10 or more
PassDerefMut ==
    op.name = "deref" /\ op.ret >= Threshold /\ DerefMut(<<1>>)

\* *v = 0
PassWrite == op.name = "deref_mut" /\ Write(0)

\* the closure returns and the item is dropped
PassItemDrop ==
    /\ \/ op.name = "write"
       \/ op.name = "deref" /\ op.ret < Threshold
    /\ Drop

\* for_each returns when next returned None; the iterator, then the borrow,
\* are dropped
PassQueryDrop ==
    /\ \/ op.name = "query_next" /\ ~op.some
       \/ op.name = "query_drop" /\ query.stage = "borrow"
    /\ QueryDrop

\* changes.for_each_changed(..) between passes
PassForEachChanged == query = NoQuery /\ ForEachChanged

NextPass ==
    \/ PassSpawn
    \/ QueryIntoTracked
    \/ PassIter
    \/ PassNext
    \/ PassRead
    \/ PassDerefMut
    \/ PassWrite
    \/ PassItemDrop
    \/ PassQueryDrop
    \/ PassForEachChanged

SpecPass == InitPass /\ [][NextPass]_vars

\* C17: end to end. With one registry used by every pass over records
\* (u32, i32): the flag of i32 is false in every state; no flag is set as
\* long as no record spawned had a u32 of 10 or more; and once the records
\* with u32 10 and 11 are spawned and a pass has written 0 to them,
\* for_each_changed reports exactly the identity of u32.
C17_PassFlagsU32Only ==
    /\ ElementTypeId_of("i32") \in DOMAIN changes
    /\ ~changes[ElementTypeId_of("i32")]
    /\ (\A i \in 1..Len(world) : PassRecords[i] < Threshold)
       => FlaggedSet = {}
    /\ ( /\ op.name = "for_each_changed"
         /\ Len(world) = Len(PassRecords)
         /\ \A i \in 1..Len(world) : world[i].u32 < Threshold )
       => op.visited = <<ElementTypeId_of("u32")>>

\* after a pass over all four records, the u32 of the last two is 0, the
\* i32 are as spawned, and for_each_changed has reported u32
C17_Witness ==
    /\ op.name = "for_each_changed"
    /\ [i \in 1..Len(world) |-> world[i].u32] = <<0, 1, 0, 0>>
    /\ [i \in 1..Len(world) |-> world[i].i32] = PassRecords
    /\ op.visited = <<ElementTypeId_of("u32")>>
    /\ query = NoQuery

----------------------------------------------------------------------------
(* Threads that share &Changes: src/query/tracked.rs.  The map is not       *)
(* changed while it is shared, so the steps of a thread that other threads  *)
(* can see are the loads and stores of the AtomicBool cells, all with       *)
(* Ordering::Relaxed: a load may return a value older than the last store   *)
(* of another thread, and never one older than the thread has seen.         *)

Threads == 1..MaxThreads

\* a thread spawned with &Changes that has made no call yet
ThreadReady ==
    [pc |-> "ready", calls |-> 0, rest |-> <<>>, visited |-> <<>>, saw |-> {}]

InitThreads ==
    /\ typeId \in TypeIdAssignments
    /\ changes \in {new_for(s) : s \in Shapes}
    /\ pc = "built"
    /\ tracked = NoProj
    /\ mutref = NoRef
    /\ world = <<>>
    /\ query = NoQuery
    /\ op = [name |-> "spawn_threads"]
    /\ before = changes
    /\ marked = {}
    /\ seen = NotSeen
    /\ threads = [th \in Threads |-> ThreadReady]

\* the calls made so far by the threads 1..n
RECURSIVE CallsMade(_)
CallsMade(n) == IF n = 0 THEN 0 ELSE threads[n].calls + CallsMade(n - 1)

\* the values cell.load(Ordering::Relaxed) of t can return to thread th
Loads(th, t) ==
    {changes[t]} \cup (IF t \in threads[th].saw THEN {} ELSE {FALSE})

\* changes.set_changed(t) on thread th: the store, or the panic of the thread
ThreadSetChanged(th, T) ==
    /\ threads[th].pc = "ready"
    /\ CallsMade(MaxThreads) < MaxCalls
    /\ LET t == ElementTypeId_of(T)
           r == set_changed(changes, t)
       IN /\ changes' = r.changes
          /\ marked' = IF r.panic THEN marked ELSE marked \cup {t}
          /\ threads' = [threads EXCEPT ![th] =
                IF r.panic THEN [@ EXCEPT !.pc = "panicked"]
                ELSE [@ EXCEPT !.calls = @ + 1, !.saw = @ \cup {t}]]
          /\ op' = [name |-> "thread_set_changed", ty |-> T, panic |-> r.panic]
    /\ before' = changes
    /\ UNCHANGED <<typeId, pc, tracked, mutref, world, query, seen>>

\* changes.is_changed(t) on thread th
ThreadIsChanged(th, T) ==
    /\ threads[th].pc = "ready"
    /\ CallsMade(MaxThreads) < MaxCalls
    /\ LET t == ElementTypeId_of(T)
       IN \E ret \in (IF t \in DOMAIN changes THEN Loads(th, t) ELSE {FALSE}) :
            /\ threads' = [threads EXCEPT ![th] =
                  [@ EXCEPT !.calls = @ + 1,
                            !.saw = IF ret THEN @ \cup {t} ELSE @]]
            /\ op' = [name |-> "thread_is_changed"]
    /\ before' = changes
    /\ UNCHANGED <<typeId, changes, pc, tracked, mutref, world, query,
                   marked, seen>>

\* changes.for_each_changed(..) on thread th: self.changes.iter()
ThreadForEachChanged(th) ==
    /\ threads[th].pc = "ready"
    /\ CallsMade(MaxThreads) < MaxCalls
    /\ DOMAIN changes # {}
    /\ threads' = [threads EXCEPT ![th] =
          [@ EXCEPT !.pc = "iterating", !.rest = btree_iter(DOMAIN changes),
                    !.visited = <<>>]]
    /\ op' = [name |-> "thread_for_each_changed"]
    /\ before' = changes
    /\ UNCHANGED <<typeId, changes, pc, tracked, mutref, world, query,
                   marked, seen>>

\* one turn of the loop of for_each_changed on thread th: the load of the
\* next cell and, when it is true, the call of the visitor; the call
\* returns after the last cell
ThreadLoad(th) ==
    /\ threads[th].pc = "iterating"
    /\ LET t == Head(threads[th].rest)
           last == Len(threads[th].rest) = 1
       IN \E ret \in Loads(th, t) :
            /\ threads' = [threads EXCEPT ![th] =
                  [@ EXCEPT !.rest = Tail(@),
                            !.visited = IF ret THEN Append(@, t) ELSE @,
                            !.saw = IF ret THEN @ \cup {t} ELSE @,
                            !.pc = IF last THEN "ready" ELSE @,
                            !.calls = IF last THEN @ + 1 ELSE @]]
            /\ op' = [name |-> "thread_load"]
    /\ before' = changes
    /\ UNCHANGED <<typeId, changes, pc, tracked, mutref, world, query,
                   marked, seen>>

\* thread th returns
ThreadExit(th) ==
    /\ threads[th].pc = "ready"
    /\ threads' = [threads EXCEPT ![th] =
          [@ EXCEPT !.pc = "done", !.visited = <<>>, !.saw = {}]]
    /\ op' = [name |-> "thread_exit"]
    /\ before' = changes
    /\ UNCHANGED <<typeId, changes, pc, tracked, mutref, world, query,
                   marked, seen>>

NextThreads ==
    \/ \E th \in Threads, T \in LeafTypes : ThreadSetChanged(th, T)
    \/ \E th \in Threads, T \in LeafTypes : ThreadIsChanged(th, T)
    \/ \E th \in Threads : ThreadForEachChanged(th)
    \/ \E th \in Threads : ThreadLoad(th)
    \/ \E th \in Threads : ThreadExit(th)

SpecThreads == InitThreads /\ [][NextThreads]_vars

\* every thread has returned or panicked
AllThreadsFinished ==
    \A th \in Threads : threads[th].pc \in {"done", "panicked"}

\* C18: lock-free sharing. With several threads marking and reading one
\* registry, under every interleaving: no mark is lost and none is invented
\* (the true flags are the reserved identities some thread has marked, at
\* every point and so once all threads have finished; what a thread has
\* seen true, and what its for_each_changed visits, some thread has
\* marked), and a mark of T changes the flag of no other identity, nor the
\* key set.
C18_LockFreeSharing ==
    /\ AllThreadsFinished => FlaggedSet = marked
    /\ FlaggedSet = marked
    /\ marked \subseteq DOMAIN changes
    /\ DOMAIN changes = DOMAIN before
    /\ \A t \in DOMAIN changes :
          changes[t] # before[t]
            => op.name = "thread_set_changed" /\ ElementTypeId_of(op.ty) = t
    /\ \A th \in Threads :
          /\ threads[th].saw \subseteq marked
          /\ \A i \in DOMAIN threads[th].visited :
                threads[th].visited[i] \in marked

\* both threads have returned, each after a call and one after two; one
\* flag of the two reserved is true and the other is false
C18_Witness ==
    /\ AllThreadsFinished
    /\ \A th \in Threads : threads[th].pc = "done" /\ threads[th].calls >= 1
    /\ \E th \in Threads : threads[th].calls >= 2
    /\ Cardinality(DOMAIN changes) = 2
    /\ Cardinality(FlaggedSet) = 1
    /\ FlaggedSet = marked

----------------------------------------------------------------------------
(* Properties of Spec: lookups, conversions, data, causes of a flag *)

\* C21 as claimed: a lookup (is_changed or get_atomic) of an identity the
\* registry never reserved aborts the operation.
C21_UnreservedLookupAborts ==
    ( /\ op.name \in {"is_changed", "get_atomic"}
      /\ ElementTypeId_of(op.ty) \notin DOMAIN before )
    => pc = "panicked"

\* C21, amended: only marks are fatal. A lookup of an identity the registry
\* never reserved returns normally and changes nothing: is_changed returns
\* false and get_atomic returns None.
C21_UnreservedLookupReturns ==
    ( /\ op.name \in {"is_changed", "get_atomic"}
      /\ ElementTypeId_of(op.ty) \notin DOMAIN before )
    => /\ pc = "built"
       /\ changes = before
       /\ op.name = "is_changed" => (~op.panic /\ op.ret = FALSE)
       /\ op.name = "get_atomic" => ~op.some

\* get_atomic of an identity that is not reserved returned None on a
\* registry that holds a true flag, and the registry goes on being used
C21_Witness ==
    /\ op.name = "get_atomic"
    /\ ElementTypeId_of(op.ty) \notin DOMAIN changes
    /\ ~op.some
    /\ pc = "built"
    /\ FlaggedSet # {}

----------------------------------------------------------------------------
(* Tuples of every arity the macro of src/query/tuples.rs implements,       *)
(* converted and accessed with a registry that reserved every leaf type.    *)

\* the largest arity tracked_tuple_impl is instantiated for
MaxArity == 15

\* the i-th element of the k-th tuple: &mut u32, &i32, &mut f32 and
\* Option<&i32> in turn, the Option being Some at every other turn
WideElem(i, k) ==
    LET j == (i + k) % 4
        x == i % (MaxValue + 1)
    IN CASE j = 0 -> [kind |-> "Mut", ty |-> "u32", value |-> x]
         [] j = 1 -> [kind |-> "Ref", ty |-> "i32", value |-> x]
         [] j = 2 -> [kind |-> "Mut", ty |-> "f32", value |-> x]
         [] j = 3 -> IF (i \div 4) % 2 = 0
                     THEN None
                     ELSE Some([kind |-> "Ref", ty |-> "i32", value |-> x])

WideTuples ==
    {[kind |-> "Tuple", elems |-> [i \in 1..n |-> WideElem(i, k)]] :
        n \in 0..MaxArity, k \in 0..3}

\* a shape with every leaf type of WideTuples
WideShape == Tuple(<<Mut("u32"), Ref("i32"), Mut("f32")>>)

InitTuple ==
    /\ typeId \in TypeIdAssignments
    /\ changes = new_for(WideShape)
    /\ pc = "built"
    /\ tracked = NoProj
    /\ mutref = NoRef
    /\ world = <<>>
    /\ query = NoQuery
    /\ op = [name |-> "new_for", shape |-> WideShape]
    /\ before = Changes_new
    /\ marked = {}
    /\ seen = NotSeen
    /\ threads = NoThreads

NextTuple ==
    \/ \E v \in WideTuples : IntoTracked(v)
    \/ \E path \in Paths(tracked) : Deref(path)
    \/ \E path \in Paths(tracked) : DerefMut(path)
    \/ Release
    \/ Drop

SpecTuple == InitTuple /\ [][NextTuple]_vars

\* p is the projection of the raw value v, element by element
RECURSIVE ProjectionOf(_, _)
ProjectionOf(p, v) ==
    CASE v.kind \in {"Ref", "Mut"} -> ProjectionOfLeaf(p, v)
      [] v.kind = "None" -> p = None
      [] v.kind = "Some" -> p.kind = "Some" /\ ProjectionOf(p.inner, v.inner)
      [] v.kind = "Tuple" ->
            /\ p.kind = "Tuple"
            /\ Len(p.elems) = Len(v.elems)
            /\ \A i \in 1..Len(v.elems) : ProjectionOf(p.elems[i], v.elems[i])

\* C22: the conversion of a tuple is element-wise. A tuple of arity n,
\* 0 <= n <= 15, converts to a tuple of arity n whose i-th element is the
\* projection of the i-th element, for every i; and the marks made through
\* different elements land in one flag set: after a mutable access through
\* an element, the flag of its type and the flag of every type marked before
\* through another element are true.
C22_TupleElementWise ==
    /\ (op.name = "into_tracked" /\ op.value.kind = "Tuple")
       => /\ tracked.kind = "Tuple"
          /\ Len(tracked.elems) = Len(op.value.elems)
          /\ \A i \in 1..Len(op.value.elems) :
                ProjectionOf(tracked.elems[i], op.value.elems[i])
    /\ (op.name = "deref_mut" /\ ~op.panic /\ tracked.kind = "Tuple")
       => /\ Flagged(LeafId(op.path))
          /\ \A t \in marked : Flagged(t)

\* in a tuple of arity 15, a mutable access through the last element after
\* one through an element of another type: both flags are true
C22_Witness ==
    /\ op.name = "deref_mut"
    /\ ~op.panic
    /\ tracked.kind = "Tuple"
    /\ Len(tracked.elems) = MaxArity
    /\ op.path = <<MaxArity>>
    /\ ~before[LeafId(op.path)]
    /\ Cardinality(FlaggedSet) = 2

----------------------------------------------------------------------------
(* Properties of Spec: data, conversions, causes of a flag, mismatch *)

\* C23: projections are transparent to the data. A read through a
\* projection returns the value the reference points to; after v is written
\* through a read-write projection, alone or inside an optional, a tuple or
\* an Or, the leaf holds v and a read returns v; and the item of a query
\* and the record it borrows agree at every point, so the record holds v
\* when the item is released.
C23_TransparentToData ==
    /\ op.name = "deref" => op.ret = LeafAt(tracked, op.path).value
    /\ op.name = "write"
       => /\ LeafAt(tracked, op.path).kind = "TrackedMut"
          /\ LeafAt(tracked, op.path).value = op.value
          /\ deref(changes, LeafAt(tracked, op.path)).target = op.value
    /\ (query.stage = "iter" /\ tracked # NoProj)
       => /\ LeafAt(tracked, <<1>>).value = world[query.pos].u32
          /\ LeafAt(tracked, <<2>>).value = world[query.pos].i32

\* the u32 of the first record, spawned as 0, is read as 1 through the item
\* of a later query: it was written through the item of an earlier one
C23_Witness ==
    /\ op.name = "deref"
    /\ op.path = <<1>>
    /\ query.stage = "iter"
    /\ query.pos = 1
    /\ op.ret = 1
    /\ world[1].i32 = 0

\* C24: conversions and the construction of the adaptor are flag-neutral.
\* The conversion of a value of any shape, the construction of the query
\* adaptor, the creation of its iterator and every step of the iterator, the
\* last one included, leave every flag and the key set as they were.
C24_ConversionFlagNeutral ==
    op.name \in {"into_tracked", "query_into_tracked", "query_iter",
                 "query_next"}
        => changes = before

\* the iterator was stepped to its end over a registry with one flag true
\* and one false, and no mark has happened but that one
C24_Witness ==
    /\ op.name = "query_next"
    /\ ~op.some
    /\ Cardinality(DOMAIN changes) = 2
    /\ Cardinality(FlaggedSet) = 1
    /\ changes = before

\* C25: flags have a single cause. In every state the flag of a reserved
\* identity is true exactly when a mark of it has happened since
\* construction: a mutable access through a TrackedMut, or set_changed on
\* the registry, on a TrackedRef or on a TrackedMut. A shared dereference is
\* not a mark.
C25_SingleCause ==
    /\ FlaggedSet = marked
    /\ op.name = "deref" => changes = before

\* set_changed was called on a TrackedRef: its type is flagged, and a
\* reserved type that was only read is not
C25_Witness ==
    /\ op.name = "tracked_set_changed"
    /\ ~op.panic
    /\ LeafAt(tracked, op.path).kind = "TrackedRef"
    /\ FlaggedSet = {ElementTypeId_of(op.ty)}
    /\ Cardinality(DOMAIN changes) = 2

\* C26: a mismatched projection cannot mutate. deref_mut of a TrackedMut<T>
\* on a registry that did not reserve T panics before a reference is handed
\* out: no reference is live, so nothing can be written through it, and no
\* flag and no key of the registry changes.
C26_MismatchCannotMutate ==
    (op.name = "deref_mut" /\ ElementTypeId_of(op.ty) \notin DOMAIN before)
    => /\ op.panic
       /\ pc = "panicked"
       /\ ~mutref.live
       /\ changes = before

\* deref_mut of a TrackedMut<f32> inside a tuple panicked on a registry
\* that reserved other types and holds a true flag
C26_Witness ==
    /\ op.name = "deref_mut"
    /\ op.panic
    /\ op.ty = "f32"
    /\ tracked.kind = "Tuple"
    /\ ~mutref.live
    /\ FlaggedSet # {}
    /\ changes = before

====
